---- MODULE Spec2Model ----
(***************************************************************************)
(* A model of the glTF document builder of src/src/gltf.ts (addScenes and  *)
(* the registrars it drives) and of the Texture class of                   *)
(* src/src/texture.ts.                                                     *)
(*                                                                         *)
(* Document arrays are TLA+ sequences; every index stored in the document  *)
(* is the 0-based JavaScript index, so entry i of an array is seq[i + 1].  *)
(* An absent numeric field (primitive.material, node.mesh, image           *)
(* .bufferView, extras.binChunkBuffer) is Absent.  A function of gltf.ts   *)
(* that mutates the document and returns a number is an operator from a    *)
(* document record to a document record whose field ret holds the returned *)
(* value and whose field err says that the call threw.                     *)
(***************************************************************************)
EXTENDS Integers, Sequences, FiniteSets, TLC

VARIABLES gltf, asset, pc, meshInputs, imageCalls, textures, lastSet,
          samplerCalls

vars ==
    <<gltf, asset, pc, meshInputs, imageCalls, textures, lastSet, samplerCalls>>

(***************************************************************************)
(* Bounds of the model.                                                    *)
(***************************************************************************)
MaxNodes == 2        \* nodes of an asset (whole-program specification)
MaxScenes == 2       \* scenes of an asset
NumRawImages == 2    \* distinct HTMLImageElement handles
NumUriImages == 3    \* distinct { uri } handles
MaxMaterials == 2    \* materials of a mesh handed to addMesh
MaxFaces == 3        \* faces of a mesh handed to addMesh
MaxPriorMeshes == 1  \* meshes packed before the mesh under study
MaxImageCalls == 3   \* addImage calls on one document
MaxTextures == 2     \* Texture objects constructed
MaxSamplerCalls == 3 \* addSampler calls on one document
MaxTreeNodes == 3    \* nodes of an asset (node walk on its own)

Absent == 0 - 1

SeqsUpTo(S, n) == UNION {[1..k -> S] : k \in 0..n}

Range(s) == {s[i] : i \in 1..Len(s)}

(***************************************************************************)
(* Enumerations of types.ts, by name.                                      *)
(***************************************************************************)
ImageOutputTypes == {"GLB", "DataURI", "External"}
BufferOutputTypes == {"GLB", "DataURI"}
VertexColorModes == {"NoColors", "FaceColors", "VertexColors"}
MeshModes == {"TRIANGLES", "LINES"}
WrappingModes == {"CLAMP_TO_EDGE", "REPEAT", "MIRRORED_REPEAT"}

(***************************************************************************)
(* Image handles.  A handle is an object: id is its identity.  Handles     *)
(* 1..NumRawImages are raster images; the others are { uri } objects, the  *)
(* odd ones with uri "a", the even ones with uri "b", so that two distinct *)
(* handles can carry the same URI.                                         *)
(***************************************************************************)
RawImages == {[id |-> i, hasUri |-> FALSE, uri |-> ""] : i \in 1..NumRawImages}

UriImages ==
    {[id |-> NumRawImages + i, hasUri |-> TRUE,
      uri |-> IF i % 2 = 1 THEN "a" ELSE "b"] : i \in 1..NumUriImages}

Images == RawImages \cup UriImages

\* The values an image entry's uri field takes.
UriUnset == [kind |-> "unset", s |-> "", n |-> 0]
UriString(s) == [kind |-> "string", s |-> s, n |-> 0]
UriData(id) == [kind |-> "data", s |-> "", n |-> id]
UriPng(id) == [kind |-> "png", s |-> "", n |-> id]

(***************************************************************************)
(* The document before addScenes: new glTF with the export options.        *)
(* async is the runtime's list of asynchronous operations dispatched so    *)
(* far (a promise is a handle: an index into it); extras.promises is the   *)
(* array of promises the document collects.  calls counts the addMesh      *)
(* invocations, and the owner field of an entry is the invocation during   *)
(* which it was registered (0: outside addMesh): history only.  typeError  *)
(* says that the throw was the TypeError of a method call on an undefined  *)
(* gltf.extras.binChunkBuffer.                                             *)
(***************************************************************************)
EmptyGltf(opts) ==
    [nodes |-> <<>>, scenes |-> <<>>, meshes |-> <<>>, materials |-> <<>>,
     textures |-> <<>>, images |-> <<>>, samplers |-> <<>>,
     accessors |-> <<>>, buffers |-> <<>>, bufferViews |-> <<>>,
     extras |-> [options |-> opts, promises |-> <<>>, binChunkBuffer |-> Absent],
     async |-> <<>>, calls |-> 0, err |-> FALSE, typeError |-> FALSE,
     ret |-> Absent]

Options ==
    [bufferOutputType : BufferOutputTypes, imageOutputType : ImageOutputTypes]

Return(g, v) == [g EXCEPT !.ret = v]

\* A method call on gltf.extras.binChunkBuffer! when it is undefined
ThrowTypeError(g) == [g EXCEPT !.err = TRUE, !.typeError = TRUE]

(***************************************************************************)
(* Buffer and BufferView (buffer.ts, not among the sources): a buffer and  *)
(* a buffer view register themselves in the document when created, in      *)
(* creation order; a view tracks its open accessor segment.  data is the   *)
(* sequence of the components pushed to the view.  History only: trace,    *)
(* the calls made on the view in order ("start", "push", "end",            *)
(* "finalize"), and born, the length of gltf.accessors when the view was   *)
(* created.                                                                *)
(***************************************************************************)
Stride(type) ==
    CASE type = "SCALAR" -> 1
      [] type = "VEC2" -> 2
      [] type = "VEC3" -> 3
      [] type = "VEC4" -> 4

\* new Buffer(gltf)
AddBuffer(g) ==
    Return([g EXCEPT !.buffers =
                Append(@, [finalized |-> FALSE, owner |-> g.calls])],
           Len(g.buffers))

\* buffer.addBufferView(componentType, dataType); the view's getIndex()
AddBufferView(g, buffer, componentType, type) ==
    Return([g EXCEPT !.bufferViews =
                Append(@, [buffer |-> buffer, componentType |-> componentType,
                           type |-> type, finalized |-> FALSE, open |-> FALSE,
                           n |-> 0, segments |-> 0, written |-> FALSE,
                           data |-> <<>>, trace |-> <<>>,
                           born |-> Len(g.accessors), owner |-> g.calls])],
           Len(g.bufferViews))

\* bufferView.startAccessor(name)
StartAccessor(g, view) ==
    [g EXCEPT !.bufferViews[view + 1].open = TRUE,
              !.bufferViews[view + 1].n = 0,
              !.bufferViews[view + 1].trace = Append(@, "start")]

\* bufferView.push(component), once for each of the components, in order
Push(g, view, components) ==
    [g EXCEPT !.bufferViews[view + 1].n = @ + Len(components),
              !.bufferViews[view + 1].data = @ \o components,
              !.bufferViews[view + 1].trace =
                  @ \o [i \in 1..Len(components) |-> "push"]]

\* bufferView.endAccessor(): the BufferAccessorInfo is left in ret
EndAccessor(g, view) ==
    LET v == g.bufferViews[view + 1] IN
    Return([g EXCEPT !.bufferViews[view + 1].open = FALSE,
                     !.bufferViews[view + 1].segments = @ + 1,
                     !.bufferViews[view + 1].trace = Append(@, "end")],
           [componentType |-> v.componentType, type |-> v.type,
            count |-> v.n \div Stride(v.type)])

\* bufferView.finalize()
FinalizeView(g, view) ==
    [g EXCEPT !.bufferViews[view + 1].finalized = TRUE,
              !.bufferViews[view + 1].trace = Append(@, "finalize")]

\* buffer.finalize()
FinalizeBuffer(g, buffer) ==
    [g EXCEPT !.buffers[buffer + 1].finalized = TRUE]

(***************************************************************************)
(* addAccessor                                                             *)
(***************************************************************************)
\* AddAccessor that reads the length after the push.
AddAccessor_LengthAfterPush(g, bufferViewIndex, accessorInfo) ==
    Return([g EXCEPT !.accessors =
                Append(@, [bufferView |-> bufferViewIndex,
                           componentType |-> accessorInfo.componentType,
                           count |-> accessorInfo.count,
                           type |-> accessorInfo.type,
                           owner |-> g.calls])],
           Len(g.accessors) + 1)

AddAccessor(g, bufferViewIndex, accessorInfo) ==
    Return([g EXCEPT !.accessors =
                Append(@, [bufferView |-> bufferViewIndex,
                           componentType |-> accessorInfo.componentType,
                           count |-> accessorInfo.count,
                           type |-> accessorInfo.type,
                           owner |-> g.calls])],
           Len(g.accessors))

(***************************************************************************)
(* addSampler / objectsEqual                                               *)
(***************************************************************************)
\* ObjectsEqual that compares wrapS alone.
ObjectsEqual_WrapSOnly(obj1, obj2) == obj1.wrapS = obj2.wrapS

\* JSON.stringify(obj1) === JSON.stringify(obj2) on { wrapS, wrapT } objects
ObjectsEqual(obj1, obj2) ==
    obj1.wrapS = obj2.wrapS /\ obj1.wrapT = obj2.wrapT

RECURSIVE FindSampler(_, _, _)
FindSampler(samplers, gltfSampler, i) ==
    IF i > Len(samplers) THEN Absent
    ELSE IF ObjectsEqual(gltfSampler, samplers[i]) THEN i - 1
    ELSE FindSampler(samplers, gltfSampler, i + 1)

AddSampler(g, texture) ==
    LET gltfSampler == [wrapS |-> texture.wrapS, wrapT |-> texture.wrapT]
        found == FindSampler(g.samplers, gltfSampler, 1)
    IN  IF found # Absent THEN Return(g, found)
        ELSE Return([g EXCEPT !.samplers =
                        Append(@, [wrapS |-> gltfSampler.wrapS,
                                   wrapT |-> gltfSampler.wrapT,
                                   owner |-> g.calls])],
                    Len(g.samplers))

(***************************************************************************)
(* addImage                                                                *)
(***************************************************************************)
\* ImageMatches without the test of the URI.
ImageMatches_IdentityOnly(image, entry) == image.id = entry.extras

\* The two tests of the duplicate scan: the same handle, or a { uri } image
\* whose uri equals the entry's.
ImageMatches(image, entry) ==
    \/ image.id = entry.extras
    \/ image.hasUri /\ entry.uri = UriString(image.uri)

RECURSIVE FindImage(_, _, _)
FindImage(images, image, i) ==
    IF i > Len(images) THEN Absent
    ELSE IF ImageMatches(image, images[i]) THEN i - 1
    ELSE FindImage(images, image, i + 1)

\* The entry for a raster image and the asynchronous work dispatched for it,
\* by image output type.  The entry will sit at index Len(g.images).
AddRasterImage(g, image) ==
    LET base == [extras |-> image.id, uri |-> UriUnset, bufferView |-> Absent,
                 mimeType |-> "", owner |-> g.calls]
        type == g.extras.options.imageOutputType
    IN  CASE type = "GLB" /\ g.extras.binChunkBuffer = Absent -> ThrowTypeError(g)
          [] type = "GLB" ->
               LET gv == AddBufferView(g, g.extras.binChunkBuffer,
                                       "UNSIGNED_BYTE", "SCALAR")
                   bufferView == gv.ret
               IN  [gv EXCEPT
                      !.async = Append(@, [kind |-> "write", target |-> bufferView,
                                           image |-> image.id, state |-> "pending"]),
                      !.images = Append(@, [base EXCEPT !.bufferView = bufferView,
                                                        !.mimeType = "image/png"])]
          [] type = "DataURI" ->
               [g EXCEPT !.images = Append(@, [base EXCEPT !.uri = UriData(image.id)])]
          [] OTHER ->
               [g EXCEPT
                  !.async = Append(@, [kind |-> "encode", target |-> Len(g.images),
                                       image |-> image.id, state |-> "pending"]),
                  !.extras.promises = Append(@, Len(g.async) + 1),
                  !.images = Append(@, base)]

AddImage(g, image) ==
    LET found == FindImage(g.images, image, 1)
        addedIndex == Len(g.images)
    IN  IF found # Absent THEN Return(g, found)
        ELSE IF image.hasUri
        THEN Return([g EXCEPT !.images =
                        Append(@, [extras |-> image.id, uri |-> UriString(image.uri),
                                   bufferView |-> Absent, mimeType |-> "",
                                   owner |-> g.calls])],
                    addedIndex)
        ELSE Return(AddRasterImage(g, image), addedIndex)

(***************************************************************************)
(* addTexture, addMaterial, addMaterials.  An operator named after a       *)
(* function is its first statements; the operators that follow it, each    *)
(* taking the document the previous statement left, are the rest of it.    *)
(***************************************************************************)
\* gltf.textures.push(gltfTexture); return addedIndex
PushTexture(g, sampler) ==
    IF g.err THEN g
    ELSE
    Return([g EXCEPT !.textures =
                Append(@, [sampler |-> sampler, source |-> g.ret,
                           owner |-> g.calls])],
           Len(g.textures))

\* source: addImage(gltf, texture.image), after the sampler
AddTextureImage(g, texture) == PushTexture(AddImage(g, texture.image), g.ret)

AddTexture(g, texture) == AddTextureImage(AddSampler(g, texture), texture)

\* gltf.materials.push(gltfMaterial); return addedIndex.  g.ret is the index
\* of the base color texture, if any.
PushMaterial(g) ==
    IF g.err THEN g
    ELSE
    Return([g EXCEPT !.materials =
                Append(@, [baseColorTexture |-> g.ret, owner |-> g.calls])],
           Len(g.materials))

\* A material of the model: its vertexColorMode and its
\* pbrMetallicRoughness.baseColorTexture (hasTexture says whether it has one).
AddMaterial(g, material) ==
    PushMaterial(IF material.hasTexture THEN AddTexture(g, material.texture)
                 ELSE Return(g, Absent))

\* The loop of addMaterials from material i on; ret is the array of indices
\* addMaterials returns.
RECURSIVE AddMaterialsFrom(_, _, _, _)
RECURSIVE MaterialAdded(_, _, _, _)

\* indices.push(<the index addMaterial returned>)
MaterialAdded(g, materials, i, indices) ==
    IF g.err THEN g
    ELSE AddMaterialsFrom(g, materials, i + 1, Append(indices, g.ret))

AddMaterialsFrom(g, materials, i, indices) ==
    IF i > Len(materials) THEN Return(g, indices)
    ELSE MaterialAdded(AddMaterial(g, materials[i]), materials, i, indices)

AddMaterials(g, materials) == AddMaterialsFrom(g, materials, 1, <<>>)

(***************************************************************************)
(* addMesh.  A mesh of the model: mode, material (the array of materials), *)
(* faces, the materialIndex of each face forEachFace hands to the          *)
(* callback, in order, and colors, the color of each face and of its three *)
(* vertices.  A color is <<>> (undefined), <<r, g, b>> (an RGBColor) or    *)
(* <<r, g, b, a>> (an RGBAColor), with components in thousandths.  The     *)
(* coordinates of a vertex are not numbers of the model: the component     *)
(* `field` of vertex j of face i is the value <<i, j, field>>.  The state  *)
(* of the face loop: g, the document;        *)
(* started and last, lastMaterialIndex (started = FALSE: null); color,     *)
(* vertexColorBufferView (Absent: undefined).  ctx holds the constants of  *)
(* one call: mesh, addedIndex, meshBuffer and the three views vertex,      *)
(* normal, uv.                                                             *)
(***************************************************************************)
\* materialIndex >= 0
HasMaterial(materialIndex) == materialIndex >= 0

\* currentMaterial && currentMaterial.vertexColorMode !== NoColors, and the
\* same test of _completeMeshPrimitive
HasColors(mesh, materialIndex) ==
    /\ HasMaterial(materialIndex)
    /\ mesh.material[materialIndex + 1].vertexColorMode # "NoColors"

\* StartsNewRun that never splits: only the first face starts a run.
StartsNewRun_FirstFaceOnly(st, materialIndex) == ~st.started

\* lastMaterialIndex !== materialIndex
StartsNewRun(st, materialIndex) ==
    ~st.started \/ st.last # materialIndex

\* RunOpen with the test inverted into one that never holds.
RunOpen_Never(st) == FALSE

\* lastMaterialIndex !== null
RunOpen(st) == st.started

\* EnsureColorBufferView without the test of vertexColorBufferView.
EnsureColorBufferView_Always(st, meshBuffer) ==
    LET gv == AddBufferView(st.g, meshBuffer, "UNSIGNED_BYTE", "VEC4")
    IN  [st EXCEPT !.g = gv, !.color = gv.ret]

\* _ensureColorBufferView
EnsureColorBufferView(st, meshBuffer) ==
    IF st.color # Absent THEN st
    ELSE LET gv == AddBufferView(st.g, meshBuffer, "UNSIGNED_BYTE", "VEC4")
         IN  [st EXCEPT !.g = gv, !.color = gv.ret]

\* _completeMeshPrimitive: the primitive is left in ret
CompleteMeshPrimitive(st, ctx, materialIndex) ==
    LET e1 == EndAccessor(st.g, ctx.vertex)
        e2 == EndAccessor(e1, ctx.normal)
        e3 == EndAccessor(e2, ctx.uv)
        a1 == AddAccessor(e3, ctx.vertex, e1.ret)
        a2 == AddAccessor(a1, ctx.normal, e2.ret)
        a3 == AddAccessor(a2, ctx.uv, e3.ret)
        primitive == [POSITION |-> a1.ret, NORMAL |-> a2.ret,
                      TEXCOORD_0 |-> a3.ret, COLOR_0 |-> Absent,
                      mode |-> ctx.mesh.mode, material |-> Absent]
    IN  IF ~HasMaterial(materialIndex) THEN Return(a3, primitive)
        ELSE IF ~HasColors(ctx.mesh, materialIndex)
        THEN Return(a3, [primitive EXCEPT !.material = materialIndex])
        ELSE LET e4 == EndAccessor(a3, st.color)
                 a4 == AddAccessor(e4, st.color, e4.ret)
             IN  Return(a4, [primitive EXCEPT !.material = materialIndex,
                                              !.COLOR_0 = a4.ret])

\* gltfMesh.primitives.push(primitive), the primitive being g.ret
AppendPrimitive(g, addedIndex) ==
    [g EXCEPT !.meshes[addedIndex + 1].primitives = Append(@, g.ret)]

\* const primitive = _completeMeshPrimitive(lastMaterialIndex);
\* gltfMesh.primitives.push(primitive);
PushPrimitive(st, ctx) ==
    [st EXCEPT !.g = AppendPrimitive(CompleteMeshPrimitive(st, ctx, st.last),
                                     ctx.addedIndex)]

\* The startAccessor calls of a new run and lastMaterialIndex = materialIndex
OpenRun(st, ctx, materialIndex) ==
    LET s1 == StartAccessor(st.g, ctx.vertex)
        s2 == StartAccessor(s1, ctx.normal)
        s3 == StartAccessor(s2, ctx.uv)
    IN  IF HasColors(ctx.mesh, materialIndex)
        THEN LET ensured == EnsureColorBufferView([st EXCEPT !.g = s3],
                                                  ctx.meshBuffer)
             IN  [ensured EXCEPT !.g = StartAccessor(ensured.g, ensured.color),
                                 !.last = materialIndex, !.started = TRUE]
        ELSE [st EXCEPT !.g = s3, !.last = materialIndex, !.started = TRUE]

\* The body of "if (lastMaterialIndex !== materialIndex)"
StartRun(st, ctx, materialIndex) ==
    OpenRun(IF RunOpen(st) THEN PushPrimitive(st, ctx) ELSE st,
            ctx, materialIndex)

\* The components of a color are thousandths: ColorUnit is 1.0.
ColorUnit == 1000

NoColor == <<>>

\* new RGBColor()
NewRGBColor == <<0, 0, 0>>

\* color || new RGBColor()
ColorOrDefault(color) == IF color = NoColor THEN NewRGBColor ELSE color

\* ToByte that rounds to the nearest integer.
ToByte_Rounded(c) == (c * 255 + ColorUnit \div 2) \div ColorUnit

\* (c * 255) | 0, for a component c in thousandths: the product, truncated
\* toward zero (the product of a component of a color is far from 2^31)
ToByte(c) ==
    IF c >= 0 THEN (c * 255) \div ColorUnit
    ELSE 0 - ((0 - c * 255) \div ColorUnit)

\* "a" in color
HasAlpha(color) == Len(color) = 4

\* color.r, color.g, color.b and color.a are color[1] to color[4]
AddColorToBufferView(g, bufferView, color) ==
    Push(g, bufferView,
         <<ToByte(color[1]), ToByte(color[2]), ToByte(color[3]),
           IF HasAlpha(color) THEN ToByte(color[4]) ELSE 255>>)

\* The arguments forEachFace hands to the callback for face i of the mesh
Vertex(mesh, i, j) ==
    [x |-> <<i, j, "x">>,
     y |-> <<i, j, "y">>,
     z |-> <<i, j, "z">>,
     normalX |-> <<i, j, "normalX">>,
     normalY |-> <<i, j, "normalY">>,
     normalZ |-> <<i, j, "normalZ">>,
     u |-> <<i, j, "u">>,
     v |-> <<i, j, "v">>,
     color |-> mesh.colors[i].v[j]]

Face(mesh, i) ==
    [v1 |-> Vertex(mesh, i, 1), v2 |-> Vertex(mesh, i, 2),
     v3 |-> Vertex(mesh, i, 3), color |-> mesh.colors[i].color,
     materialIndex |-> mesh.faces[i]]

\* The switch on currentMaterial.vertexColorMode, after the other pushes (g)
PushColors(g, st, ctx, face) ==
    LET mode == IF HasMaterial(face.materialIndex)
                THEN ctx.mesh.material[face.materialIndex + 1].vertexColorMode
                ELSE "NoColors"
    IN  CASE mode = "FaceColors" ->
               LET c1 == AddColorToBufferView(g, st.color,
                                              ColorOrDefault(face.color))
                   c2 == AddColorToBufferView(c1, st.color,
                                              ColorOrDefault(face.color))
               IN  AddColorToBufferView(c2, st.color, ColorOrDefault(face.color))
          [] mode = "VertexColors" ->
               LET c1 == AddColorToBufferView(g, st.color,
                                              ColorOrDefault(face.v1.color))
                   c2 == AddColorToBufferView(c1, st.color,
                                              ColorOrDefault(face.v2.color))
               IN  AddColorToBufferView(c2, st.color,
                                        ColorOrDefault(face.v3.color))
          [] OTHER -> g

\* PushFace that pushes the vertices in the order v1, v3, v2.
PushFace_Swapped(st, ctx, face) ==
    LET p1 == Push(st.g, ctx.vertex,
                   <<face.v1.x, face.v1.y, face.v1.z,
                     face.v3.x, face.v3.y, face.v3.z,
                     face.v2.x, face.v2.y, face.v2.z>>)
        p2 == Push(p1, ctx.normal,
                   <<face.v1.normalX, face.v1.normalY, face.v1.normalZ,
                     face.v3.normalX, face.v3.normalY, face.v3.normalZ,
                     face.v2.normalX, face.v2.normalY, face.v2.normalZ>>)
        p3 == Push(p2, ctx.uv,
                   <<face.v1.u, face.v1.v, face.v3.u, face.v3.v,
                     face.v2.u, face.v2.v>>)
    IN  [st EXCEPT !.g = PushColors(p3, st, ctx, face)]

\* The pushes of one face
PushFace(st, ctx, face) ==
    LET p1 == Push(st.g, ctx.vertex,
                   <<face.v1.x, face.v1.y, face.v1.z,
                     face.v2.x, face.v2.y, face.v2.z,
                     face.v3.x, face.v3.y, face.v3.z>>)
        p2 == Push(p1, ctx.normal,
                   <<face.v1.normalX, face.v1.normalY, face.v1.normalZ,
                     face.v2.normalX, face.v2.normalY, face.v2.normalZ,
                     face.v3.normalX, face.v3.normalY, face.v3.normalZ>>)
        p3 == Push(p2, ctx.uv,
                   <<face.v1.u, face.v1.v, face.v2.u, face.v2.v,
                     face.v3.u, face.v3.v>>)
    IN  [st EXCEPT !.g = PushColors(p3, st, ctx, face)]

\* The callback of mesh.forEachFace, for one face
FaceCallback(st, ctx, face) ==
    PushFace(IF StartsNewRun(st, face.materialIndex)
             THEN StartRun(st, ctx, face.materialIndex) ELSE st,
             ctx, face)

RECURSIVE ForEachFace(_, _, _)
ForEachFace(st, ctx, i) ==
    IF i > Len(ctx.mesh.faces) THEN st
    ELSE ForEachFace(FaceCallback(st, ctx, Face(ctx.mesh, i)), ctx, i + 1)

\* The finalize calls that end addMesh, and return addedIndex
FinalizeMesh(st, ctx) ==
    LET f1 == FinalizeView(st.g, ctx.vertex)
        f2 == FinalizeView(f1, ctx.normal)
        f3 == FinalizeView(f2, ctx.uv)
        f4 == IF st.color # Absent THEN FinalizeView(f3, st.color) ELSE f3
    IN  Return(IF st.g.extras.options.bufferOutputType # "GLB"
               THEN FinalizeBuffer(f4, ctx.meshBuffer) ELSE f4,
               ctx.addedIndex)

\* CloseLastRun that does not complete the last run.
CloseLastRun_NoPrimitive(st, ctx) == FinalizeMesh(st, ctx)

\* The primitive of the last run
CloseLastRun(st, ctx) ==
    FinalizeMesh(IF RunOpen(st) THEN PushPrimitive(st, ctx) ELSE st, ctx)

\* The face loop
PackFaces(g, ctx) ==
    CloseLastRun(ForEachFace([g |-> g, started |-> FALSE, last |-> Absent,
                              color |-> Absent], ctx, 1), ctx)

\* The three buffer views of the mesh, in its buffer g.ret
AddMeshViews(g, mesh, addedIndex) ==
    IF g.ret = Absent THEN ThrowTypeError(g)
    ELSE
    LET v1 == AddBufferView(g, g.ret, "FLOAT", "VEC3")
        v2 == AddBufferView(v1, g.ret, "FLOAT", "VEC3")
        v3 == AddBufferView(v2, g.ret, "FLOAT", "VEC2")
    IN  PackFaces(v3, [mesh |-> mesh, addedIndex |-> addedIndex,
                       meshBuffer |-> g.ret, vertex |-> v1.ret,
                       normal |-> v2.ret, uv |-> v3.ret])

\* meshBuffer: the container's buffer or a new one
MeshBuffer(g) ==
    IF g.extras.options.bufferOutputType = "GLB"
    THEN Return(g, g.extras.binChunkBuffer)
    ELSE AddBuffer(g)

\* gltf.meshes.push(gltfMesh) and the rest of addMesh
AddMeshEntry(g, mesh) ==
    IF g.err THEN g
    ELSE
    AddMeshViews(MeshBuffer([g EXCEPT !.meshes =
                                 Append(@, [primitives |-> <<>>,
                                            owner |-> g.calls])]),
                 mesh, Len(g.meshes))

\* The topology test
Unsupported(mesh) == mesh.mode # "TRIANGLES"

\* addMesh with the topology test after addMaterials.
AddMeshBody_LateTest(g, mesh) ==
    IF Unsupported(mesh)
    THEN [AddMaterials(g, mesh.material) EXCEPT !.err = TRUE]
    ELSE AddMeshEntry(AddMaterials(g, mesh.material), mesh)

\* addMesh, entered (calls counts the entries)
AddMeshBody(g, mesh) ==
    IF Unsupported(mesh) THEN [g EXCEPT !.err = TRUE]
    ELSE AddMeshEntry(AddMaterials(g, mesh.material), mesh)

AddMesh(g, mesh) == AddMeshBody([g EXCEPT !.calls = @ + 1], mesh)

(***************************************************************************)
(* addNode, addScene, addScenes.  An asset of the model: nodes, the Node   *)
(* objects by identity (hasMesh, mesh, the translation, rotation and scale *)
(* its getters return, and children, the identities forEachNode visits in  *)
(* order), and scenes, each the sequence of node identities its            *)
(* forEachNode visits.  A throw ends every enclosing loop:  *)
(* the document is left as it was when addMesh threw.                      *)
(***************************************************************************)
RECURSIVE AddNode(_, _, _)
RECURSIVE AddChildren(_, _, _, _, _)
RECURSIVE ChildAdded(_, _, _, _, _)

\* ChildAdded that pushes the index of the node itself.
ChildAdded_OwnIndex(g, a, children, addedIndex, i) ==
    IF g.err THEN g
    ELSE AddChildren([g EXCEPT !.nodes[addedIndex + 1].children =
                                   Append(@, addedIndex)],
                     a, children, addedIndex, i + 1)

\* gltfNode.children.push(index), index being g.ret, and the next child
ChildAdded(g, a, children, addedIndex, i) ==
    IF g.err THEN g
    ELSE AddChildren([g EXCEPT !.nodes[addedIndex + 1].children =
                                   Append(@, g.ret)],
                     a, children, addedIndex, i + 1)

\* node.forEachNode(...) of addNode, from child i on
AddChildren(g, a, children, addedIndex, i) ==
    IF i > Len(children) THEN g
    ELSE ChildAdded(AddNode(g, a, children[i]), a, children, addedIndex, i)

\* gltfNode.mesh = <the index addMesh returned>; return addedIndex
SetNodeMesh(g, addedIndex) ==
    IF g.err THEN g
    ELSE Return([g EXCEPT !.nodes[addedIndex + 1].mesh = g.ret], addedIndex)

\* return addedIndex, after the children
ReturnNode(g, addedIndex) == IF g.err THEN g ELSE Return(g, addedIndex)

\* AddNodeContent that visits the children of a node with a mesh too.
AddNodeContent_Both(g, a, node, addedIndex) ==
    ReturnNode(AddChildren(IF node.hasMesh
                           THEN SetNodeMesh(AddMesh(g, node.mesh), addedIndex)
                           ELSE g,
                           a, node.children, addedIndex, 1), addedIndex)

\* The node is pushed (g), its index is addedIndex: the mesh or the children
AddNodeContent(g, a, node, addedIndex) ==
    IF node.hasMesh
    THEN SetNodeMesh(AddMesh(g, node.mesh), addedIndex)
    ELSE ReturnNode(AddChildren(g, a, node.children, addedIndex, 1), addedIndex)

\* Vector3.toArray() and Quaternion.toArray()
ToArray3(v) == <<v.x, v.y, v.z>>

ToArray4(q) == <<q.x, q.y, q.z, q.w>>

\* The three tests of addNode on the transform of the node
IsTranslated(translation) ==
    translation.x # 0 \/ translation.y # 0 \/ translation.z # 0

\* IsRotated that does not look at w.
IsRotated_NoW(rotation) ==
    rotation.x # 0 \/ rotation.y # 0 \/ rotation.z # 0

IsRotated(rotation) ==
    rotation.x # 0 \/ rotation.y # 0 \/ rotation.z # 0 \/ rotation.w # 1

IsScaled(scale) == scale.x # 1 \/ scale.y # 1 \/ scale.z # 1

\* gltfNode before it is pushed; a field that is not set is <<>>
GltfNode(node, id) ==
    [translation |-> IF IsTranslated(node.translation)
                     THEN ToArray3(node.translation) ELSE <<>>,
     rotation |-> IF IsRotated(node.rotation)
                  THEN ToArray4(node.rotation) ELSE <<>>,
     scale |-> IF IsScaled(node.scale) THEN ToArray3(node.scale) ELSE <<>>,
     mesh |-> Absent, children |-> <<>>, source |-> id]

AddNode(g, a, id) ==
    AddNodeContent([g EXCEPT !.nodes = Append(@, GltfNode(a.nodes[id], id))],
                   a, a.nodes[id], Len(g.nodes))

\* scene.forEachNode(...) of addScene, from root i on; nodes is gltfScene.nodes
RECURSIVE AddSceneNodes(_, _, _, _, _)
RECURSIVE RootAdded(_, _, _, _, _)

\* gltfScene.nodes.push(index), index being g.ret, and the next root
RootAdded(g, a, roots, nodes, i) ==
    IF g.err THEN g
    ELSE AddSceneNodes(g, a, roots, Append(nodes, g.ret), i + 1)

AddSceneNodes(g, a, roots, nodes, i) ==
    IF i > Len(roots) THEN Return(g, nodes)
    ELSE RootAdded(AddNode(g, a, roots[i]), a, roots, nodes, i)

\* gltf.scenes.push(gltfScene), gltfScene.nodes being g.ret
PushScene(g) ==
    IF g.err THEN g ELSE [g EXCEPT !.scenes = Append(@, [nodes |-> g.ret])]

AddScene(g, a, scene) == PushScene(AddSceneNodes(g, a, scene, <<>>, 1))

\* asset.forEachScene(...) of addScenes, from scene i on
RECURSIVE ForEachScene(_, _, _)
RECURSIVE SceneAdded(_, _, _)

SceneAdded(g, a, i) == IF g.err THEN g ELSE ForEachScene(g, a, i + 1)

ForEachScene(g, a, i) ==
    IF i > Len(a.scenes) THEN g
    ELSE SceneAdded(AddScene(g, a, a.scenes[i]), a, i)

\* DoingGLB that tests the buffer output type alone.
DoingGLB_BufferOnly(g) == g.extras.options.bufferOutputType = "GLB"

DoingGLB(g) ==
    \/ g.extras.options.bufferOutputType = "GLB"
    \/ g.extras.options.imageOutputType = "GLB"

\* gltf.extras.binChunkBuffer = addBuffer(gltf), the buffer being g.ret
SetBinChunk(g) == [g EXCEPT !.extras.binChunkBuffer = g.ret]

\* The first statements of addScenes, up to the walk
CreateBinChunk(g) == IF DoingGLB(g) THEN SetBinChunk(AddBuffer(g)) ELSE g

\* The last statement of addScenes, which a throw of the walk skips
FinalizeBinChunk(g) ==
    IF g.err THEN g
    ELSE IF DoingGLB(g) THEN FinalizeBuffer(g, g.extras.binChunkBuffer)
    ELSE g

AddScenes(g, a) == FinalizeBinChunk(ForEachScene(CreateBinChunk(g), a, 1))

(***************************************************************************)
(* The completions of the asynchronous operations addImage dispatched.     *)
(***************************************************************************)
\* EncodeResolved writing to the entry pushed last, not to the one captured.
EncodeResolved_LastEntry(g, k) ==
    [g EXCEPT !.images[Len(g.images)].uri = UriPng(g.async[k].image),
              !.async[k].state = "done"]

\* EncodeResolved that inserts the finished entry anew, at the end.
EncodeResolved_Reappend(g, k) ==
    LET i == g.async[k].target + 1 IN
    [g EXCEPT !.images = Append(SubSeq(@, 1, i - 1) \o SubSeq(@, i + 1, Len(@)),
                                [@[i] EXCEPT !.uri = UriPng(g.async[k].image)]),
              !.async[k].state = "done"]

\* imageToArrayBuffer(image).then(pngBuffer => { gltfImage.uri = pngBuffer })
EncodeResolved(g, k) ==
    [g EXCEPT !.images[g.async[k].target + 1].uri = UriPng(g.async[k].image),
              !.async[k].state = "done"]

\* bufferView.writeAsync(...) has written the bytes
WriteResolved(g, k) ==
    [g EXCEPT !.bufferViews[g.async[k].target + 1].written = TRUE,
              !.async[k].state = "written"]

\* .then(() => { bufferView.finalize() })
WriteThen(g, k) ==
    [FinalizeView(g, g.async[k].target) EXCEPT !.async[k].state = "done"]

(***************************************************************************)
(* Inputs: textures, materials, meshes, assets.                            *)
(***************************************************************************)
TextureOn(image) ==
    [image |-> image, wrapS |-> "CLAMP_TO_EDGE", wrapT |-> "CLAMP_TO_EDGE"]

AnyImage == CHOOSE image \in RawImages : image.id = 1

PlainMaterial(mode) ==
    [vertexColorMode |-> mode, hasTexture |-> FALSE, texture |-> TextureOn(AnyImage)]

TexturedMaterial(mode, image) ==
    [vertexColorMode |-> mode, hasTexture |-> TRUE, texture |-> TextureOn(image)]

\* A face without a color, of vertices without colors
Uncolored == [color |-> NoColor, v |-> <<NoColor, NoColor, NoColor>>]

NoMesh == [mode |-> "none", material |-> <<>>, faces |-> <<>>, colors |-> <<>>]

\* The meshes of the assets walked: one of an unsupported topology, one
\* without materials, and one per raster image, textured with it.
LinesMesh ==
    [mode |-> "LINES", material |-> <<TexturedMaterial("NoColors", AnyImage)>>,
     faces |-> <<0>>, colors |-> <<Uncolored>>]

BareMesh ==
    [mode |-> "TRIANGLES", material |-> <<>>, faces |-> <<Absent>>,
     colors |-> <<Uncolored>>]

TexturedMesh(image) ==
    [mode |-> "TRIANGLES",
     material |-> <<TexturedMaterial(IF image.id % 2 = 1 THEN "NoColors"
                                     ELSE "FaceColors", image)>>,
     faces |-> <<0>>, colors |-> <<Uncolored>>]

WalkMeshes == {LinesMesh, BareMesh} \cup {TexturedMesh(image) : image \in RawImages}

NodeMeshes ==
    {[hasMesh |-> FALSE, mesh |-> NoMesh]}
        \cup {[hasMesh |-> TRUE, mesh |-> m] : m \in WalkMeshes}

RECURSIVE Ascending(_)
Ascending(S) ==
    IF S = {} THEN <<>>
    ELSE LET m == CHOOSE x \in S : \A y \in S : x <= y
         IN  <<m>> \o Ascending(S \ {m})

\* The transform of a new Node
Origin == [x |-> 0, y |-> 0, z |-> 0]

NoRotation == [x |-> 0, y |-> 0, z |-> 0, w |-> 1]

UnitScale == [x |-> 1, y |-> 1, z |-> 1]

\* The asset of n nodes in which node i hangs at place[i] (a scene, if at most
\* MaxScenes, else the node place[i] - MaxScenes) and carries label[i].
AssetOf(n, place, label) ==
    [nodes |-> [i \in 1..n |->
                   [hasMesh |-> label[i].hasMesh, mesh |-> label[i].mesh,
                    translation |-> Origin, rotation |-> NoRotation,
                    scale |-> UnitScale,
                    children |-> Ascending({j \in 1..n : place[j] = MaxScenes + i})]],
     scenes |-> [s \in 1..MaxScenes |-> Ascending({j \in 1..n : place[j] = s})]]

Places(n) ==
    {place \in [1..n -> 1..(MaxScenes + n)] :
        \A i \in 1..n : place[i] < MaxScenes + i}

\* The assets of n nodes.
Assets(n) ==
    {AssetOf(n, place, label) :
        place \in Places(n), label \in [1..n -> NodeMeshes]}

NoAsset == [nodes |-> <<>>, scenes |-> <<>>]

(***************************************************************************)
(* The export: addScenes on a new document, then the completions in any    *)
(* order.  addScenes is synchronous: no completion runs before it returns. *)
(***************************************************************************)
Init ==
    /\ \E n \in 0..MaxNodes : asset \in Assets(n)
    /\ gltf \in {EmptyGltf(opts) : opts \in Options}
    /\ pc = "start"
    /\ meshInputs = <<>>
    /\ imageCalls = <<>>
    /\ textures = <<>>
    /\ lastSet = <<>>
    /\ samplerCalls = <<>>

Walk ==
    /\ pc = "start"
    /\ gltf' = AddScenes(gltf, asset)
    /\ pc' = IF gltf'.err THEN "thrown" ELSE "walked"
    /\ UNCHANGED <<asset, meshInputs, imageCalls, textures, lastSet,
                     samplerCalls>>

ResolveEncode ==
    \E k \in 1..Len(gltf.async) :
        /\ gltf.async[k].kind = "encode"
        /\ gltf.async[k].state = "pending"
        /\ gltf' = EncodeResolved(gltf, k)
        /\ UNCHANGED <<asset, pc, meshInputs, imageCalls, textures, lastSet,
                     samplerCalls>>

ResolveWrite ==
    \E k \in 1..Len(gltf.async) :
        /\ gltf.async[k].kind = "write"
        /\ gltf.async[k].state = "pending"
        /\ gltf' = WriteResolved(gltf, k)
        /\ UNCHANGED <<asset, pc, meshInputs, imageCalls, textures, lastSet,
                     samplerCalls>>

FinalizeWritten ==
    \E k \in 1..Len(gltf.async) :
        /\ gltf.async[k].state = "written"
        /\ gltf' = WriteThen(gltf, k)
        /\ UNCHANGED <<asset, pc, meshInputs, imageCalls, textures, lastSet,
                     samplerCalls>>

Next == Walk \/ ResolveEncode \/ ResolveWrite \/ FinalizeWritten

Spec == Init /\ [][Next]_vars

(***************************************************************************)
(* addNode on its own: the export of an asset of one scene and one node,   *)
(* without mesh and children, of any transform with components in          *)
(* Components.                                                             *)
(***************************************************************************)
Components == {0 - 1, 0, 1}

TransformAssets ==
    {[nodes |-> <<[hasMesh |-> FALSE, mesh |-> NoMesh, children |-> <<>>,
                   translation |-> t, rotation |-> r, scale |-> sc]>>,
      scenes |-> <<<<1>>>>] :
        t \in [x : Components, y : Components, z : Components],
        r \in [x : Components, y : Components, z : Components, w : Components],
        sc \in [x : Components, y : Components, z : Components]}

NodeInit ==
    /\ asset \in TransformAssets
    /\ gltf = EmptyGltf(CHOOSE opts \in Options : TRUE)
    /\ pc = "start"
    /\ meshInputs = <<>>
    /\ imageCalls = <<>>
    /\ textures = <<>>
    /\ lastSet = <<>>
    /\ samplerCalls = <<>>

NodeNext == Walk

SpecNode == NodeInit /\ [][NodeNext]_vars

(***************************************************************************)
(* The node walk on its own: the export of the assets of at most           *)
(* MaxTreeNodes nodes (TreeAssets(n): those of n nodes), each without a    *)
(* mesh, with a mesh without materials or with a mesh of an unsupported    *)
(* topology.                                                               *)
(***************************************************************************)
TreeNodeMeshes ==
    {[hasMesh |-> FALSE, mesh |-> NoMesh], [hasMesh |-> TRUE, mesh |-> BareMesh],
     [hasMesh |-> TRUE, mesh |-> LinesMesh]}

TreeAssets(n) ==
    {AssetOf(n, place, label) :
        place \in Places(n), label \in [1..n -> TreeNodeMeshes]}

TreeInit ==
    /\ \E n \in 0..MaxTreeNodes : asset \in TreeAssets(n)
    /\ gltf = EmptyGltf(CHOOSE opts \in Options : TRUE)
    /\ pc = "start"
    /\ meshInputs = <<>>
    /\ imageCalls = <<>>
    /\ textures = <<>>
    /\ lastSet = <<>>
    /\ samplerCalls = <<>>

TreeNext == Walk

SpecTree == TreeInit /\ [][TreeNext]_vars

(***************************************************************************)
(* addMesh on its own: the meshes of meshInputs are packed one after the   *)
(* other into one document; call k packs meshInputs[k].  The last mesh is  *)
(* any mesh within the bounds, the ones before it fill the document.       *)
(***************************************************************************)
NoMaterialIndices == {Absent, Absent - 1}

PlainMesh ==
    [mode |-> "TRIANGLES", material |-> <<PlainMaterial("NoColors")>>,
     faces |-> <<0>>, colors |-> <<Uncolored>>]

PriorMeshes == {PlainMesh}

\* The TRIANGLES meshes of at most maxMaterials materials and maxFaces faces,
\* every face with a material index of the mesh or a negative one, and
\* without colors.
PackMeshes(maxMaterials, maxFaces) ==
    {mesh \in {[mode |-> "TRIANGLES", material |-> material, faces |-> faces,
                colors |-> [i \in 1..Len(faces) |-> Uncolored]] :
                   faces \in SeqsUpTo(NoMaterialIndices \cup 0..(maxMaterials - 1),
                                      maxFaces),
                   material \in SeqsUpTo({PlainMaterial(mode) :
                                              mode \in VertexColorModes},
                                         maxMaterials)} :
        \A i \in 1..Len(mesh.faces) : mesh.faces[i] < Len(mesh.material)}

MeshInit ==
    /\ \E prior \in SeqsUpTo(PriorMeshes, MaxPriorMeshes),
          mesh \in PackMeshes(MaxMaterials, MaxFaces) :
          meshInputs = prior \o <<mesh>>
    /\ gltf \in {CreateBinChunk(EmptyGltf(opts)) :
                    opts \in {o \in Options : o.imageOutputType = "DataURI"}}
    /\ pc = "pack"
    /\ asset = NoAsset
    /\ imageCalls = <<>>
    /\ textures = <<>>
    /\ lastSet = <<>>
    /\ samplerCalls = <<>>

AddMeshCall ==
    /\ gltf.calls < Len(meshInputs)
    /\ gltf' = AddMesh(gltf, meshInputs[gltf.calls + 1])
    /\ UNCHANGED <<asset, pc, meshInputs, imageCalls, textures, lastSet,
                     samplerCalls>>

MeshNext == AddMeshCall

SpecMesh == MeshInit /\ [][MeshNext]_vars

(***************************************************************************)
(* The packing of colors: addMesh on a mesh of one face whose material has *)
(* a color mode.  With FaceColors the face has any color of Colors, with   *)
(* VertexColors each vertex has one of VertexColorSamples.                 *)
(***************************************************************************)
ColorLevels == {0, ColorUnit \div 2, ColorUnit}

Colors == {NoColor} \cup [1..3 -> ColorLevels] \cup [1..4 -> ColorLevels]

\* No color, the color (0.5, 1.0, 0.0) and a color with an alpha.
VertexColorSamples ==
    {NoColor, <<ColorUnit \div 2, ColorUnit, 0>>,
     <<ColorUnit, 0, ColorUnit \div 2, ColorUnit \div 2>>}

ColoredMeshes ==
    {[mode |-> "TRIANGLES", material |-> <<PlainMaterial("FaceColors")>>,
      faces |-> <<0>>,
      colors |-> <<[color |-> color, v |-> <<NoColor, NoColor, NoColor>>]>>] :
        color \in Colors}
    \cup
    {[mode |-> "TRIANGLES", material |-> <<PlainMaterial("VertexColors")>>,
      faces |-> <<0>>, colors |-> <<[color |-> NoColor, v |-> v]>>] :
        v \in [1..3 -> VertexColorSamples]}

ColorInit ==
    /\ meshInputs \in {<<mesh>> : mesh \in ColoredMeshes}
    /\ gltf \in {CreateBinChunk(EmptyGltf(opts)) :
                    opts \in {o \in Options : o.imageOutputType = "DataURI"}}
    /\ pc = "pack"
    /\ asset = NoAsset
    /\ imageCalls = <<>>
    /\ textures = <<>>
    /\ lastSet = <<>>
    /\ samplerCalls = <<>>

ColorNext == AddMeshCall

SpecColor == ColorInit /\ [][ColorNext]_vars

(***************************************************************************)
(* addImage on its own: calls in any order, interleaved with the           *)
(* completions.  imageCalls is the log of the calls: the image, the index  *)
(* returned, and the sizes of the document before and after the call.      *)
(***************************************************************************)
Sizes(g) ==
    [images |-> Len(g.images), bufferViews |-> Len(g.bufferViews),
     async |-> Len(g.async), promises |-> Len(g.extras.promises)]

ImageInit ==
    /\ gltf \in {CreateBinChunk(EmptyGltf(opts)) : opts \in Options}
    /\ pc = "images"
    /\ imageCalls = <<>>
    /\ asset = NoAsset
    /\ meshInputs = <<>>
    /\ textures = <<>>
    /\ lastSet = <<>>
    /\ samplerCalls = <<>>

AddImageCall ==
    \E image \in Images :
        /\ Len(imageCalls) < MaxImageCalls
        /\ gltf' = AddImage(gltf, image)
        /\ imageCalls' = Append(imageCalls,
                                [image |-> image, ret |-> gltf'.ret,
                                 before |-> Sizes(gltf), after |-> Sizes(gltf')])
        /\ UNCHANGED <<asset, pc, meshInputs, textures, lastSet,
                     samplerCalls>>

ImageNext == AddImageCall \/ ResolveEncode \/ ResolveWrite \/ FinalizeWritten

SpecImage == ImageInit /\ [][ImageNext]_vars

(***************************************************************************)
(* addSampler on its own: calls in any order on one document, each with a  *)
(* Texture of any wrapping modes (and with or without a magFilter, which   *)
(* addSampler does not read).  samplerCalls is the log of the calls: the   *)
(* texture, the index returned, and the length of gltf.samplers before and *)
(* after the call.                                                         *)
(***************************************************************************)
SamplerTextures ==
    [image : {AnyImage}, wrapS : WrappingModes, wrapT : WrappingModes,
     magFilter : {"unset", "NEAREST"}]

SamplerInit ==
    /\ gltf = EmptyGltf(CHOOSE opts \in Options : TRUE)
    /\ pc = "samplers"
    /\ samplerCalls = <<>>
    /\ asset = NoAsset
    /\ meshInputs = <<>>
    /\ imageCalls = <<>>
    /\ textures = <<>>
    /\ lastSet = <<>>

AddSamplerCall ==
    \E texture \in SamplerTextures :
        /\ Len(samplerCalls) < MaxSamplerCalls
        /\ gltf' = AddSampler(gltf, texture)
        /\ samplerCalls' = Append(samplerCalls,
                                  [texture |-> texture, ret |-> gltf'.ret,
                                   before |-> Len(gltf.samplers),
                                   after |-> Len(gltf'.samplers)])
        /\ UNCHANGED <<asset, pc, meshInputs, imageCalls, textures, lastSet>>

SamplerNext == AddSamplerCall

SpecSampler == SamplerInit /\ [][SamplerNext]_vars

(***************************************************************************)
(* The Texture class.  A value handed to the setter is null, undefined or  *)
(* an image object; textures holds the __image of each Texture object     *)
(* constructed, lastSet the last call of the setter: the value, whether it *)
(* threw, and the texture it was called on (0: one under construction).    *)
(***************************************************************************)
ImageValues ==
    {[kind |-> "object", image |-> image] : image \in Images}
        \cup {[kind |-> k, image |-> AnyImage] : k \in {"null", "undefined"}}

Undefined == [kind |-> "undefined", image |-> AnyImage]

\* Falsy that tests for null alone.
Falsy_NullOnly(val) == val.kind = "null"

\* !val
Falsy(val) == val.kind # "object"

\* set image(val) on a texture whose __image is `image`: the __image after the
\* call, and whether the call threw
SetImage(image, val) ==
    IF Falsy(val) THEN [image |-> image, threw |-> TRUE]
    ELSE [image |-> val, threw |-> FALSE]

\* constructor(image): this.image = image on a new object
Construct(val) == SetImage(Undefined, val)

TextureInit ==
    /\ textures = <<>>
    /\ lastSet = <<>>
    /\ samplerCalls = <<>>
    /\ pc = "textures"
    /\ gltf = EmptyGltf(CHOOSE opts \in Options : TRUE)
    /\ asset = NoAsset
    /\ meshInputs = <<>>
    /\ imageCalls = <<>>

\* new Texture(val): a constructor that throws yields no object
NewTexture ==
    \E val \in ImageValues :
        /\ Len(textures) < MaxTextures
        /\ textures' = IF Construct(val).threw THEN textures
                       ELSE Append(textures, Construct(val).image)
        /\ lastSet' = <<[val |-> val, threw |-> Construct(val).threw, on |-> 0]>>
        /\ UNCHANGED <<gltf, asset, pc, meshInputs, imageCalls,
                     samplerCalls>>

\* texture.image = val
AssignImage ==
    \E t \in 1..Len(textures), val \in ImageValues :
        /\ textures' = [textures EXCEPT ![t] = SetImage(@, val).image]
        /\ lastSet' = <<[val |-> val, threw |-> SetImage(textures[t], val).threw,
                         on |-> t]>>
        /\ UNCHANGED <<gltf, asset, pc, meshInputs, imageCalls,
                     samplerCalls>>

TextureNext == NewTexture \/ AssignImage

SpecTexture == TextureInit /\ [][TextureNext]_vars

(***************************************************************************)
(* What the claims speak of.                                               *)
(***************************************************************************)
\* The maximal runs of equal material index of a face sequence, in order:
\* each its material index and its number of faces.
RECURSIVE RunsFrom(_, _, _)
RunsFrom(faces, i, runs) ==
    IF i > Len(faces) THEN runs
    ELSE IF runs # <<>> /\ runs[Len(runs)].material = faces[i]
    THEN RunsFrom(faces, i + 1, [runs EXCEPT ![Len(runs)].len = @ + 1])
    ELSE RunsFrom(faces, i + 1, Append(runs, [material |-> faces[i], len |-> 1]))

Runs(faces) == RunsFrom(faces, 1, <<>>)

\* The document-global index at which call `owner` of addMesh registered the
\* material at index `local` of its mesh.material.
RegisteredMaterial(g, owner, local) ==
    Ascending({i \in 1..Len(g.materials) : g.materials[i].owner = owner})[local + 1] - 1

\* The meshes packed so far under SpecMesh: entry k is meshInputs[k].
Packed == 1..Len(gltf.meshes)

Primitives(k) == gltf.meshes[k].primitives

\* C1: every primitive with a material field holds the document-global index
\* at which its run's material was registered by this mesh's addMaterials.
C1_MaterialIndexIsGlobal ==
    \A k \in Packed :
        \A j \in 1..Len(Primitives(k)) :
            Primitives(k)[j].material # Absent =>
                Primitives(k)[j].material =
                    RegisteredMaterial(gltf, gltf.meshes[k].owner,
                                       Runs(meshInputs[k].faces)[j].material)

\* The asynchronous image writes into buffer b (0-based) that are not over:
\* the bytes not written, or the view not finalized.
PendingWrites(g, b) ==
    {k \in 1..Len(g.async) :
        /\ g.async[k].kind = "write"
        /\ g.bufferViews[g.async[k].target + 1].buffer = b
        /\ g.async[k].state # "done"}

\* C2: the container buffer is finalized only when no image write into it is
\* pending.
C2_FinalizedAfterImageWrites ==
    \A b \in 1..Len(gltf.buffers) :
        gltf.buffers[b].finalized => PendingWrites(gltf, b - 1) = {}

\* C3: every asynchronous completion addImage dispatched is in
\* gltf.extras.promises.
C3_EveryCompletionCollected ==
    \A k \in 1..Len(gltf.async) : k \in Range(gltf.extras.promises)

\* The entries of gltf.images (1-based positions) of raster images in
\* external image mode.
ExternalEntries(g) ==
    {i \in 1..Len(g.images) :
        /\ g.extras.options.imageOutputType = "External"
        /\ \E image \in RawImages : image.id = g.images[i].extras}

\* The encode completions collected in gltf.extras.promises for entry i.
EncodesOf(g, i) ==
    {k \in Range(g.extras.promises) :
        g.async[k].kind = "encode" /\ g.async[k].target = i - 1}

AllPromisesResolved(g) ==
    \A k \in Range(g.extras.promises) : g.async[k].state = "done"

\* C4: in external mode a raster image's entry has one encode completion
\* queued; its URI is unset until that completion resolves, which sets the
\* URI of that entry; when all promises have resolved no such entry has an
\* unset URI.
C4_ExternalUriSetByCompletion ==
    /\ \A i \in ExternalEntries(gltf) :
          /\ Cardinality(EncodesOf(gltf, i)) = 1
          /\ \A k \in EncodesOf(gltf, i) :
                /\ gltf.async[k].image = gltf.images[i].extras
                /\ gltf.async[k].state = "pending" => gltf.images[i].uri = UriUnset
                /\ gltf.async[k].state = "done" =>
                       gltf.images[i].uri = UriPng(gltf.images[i].extras)
    /\ AllPromisesResolved(gltf) =>
          \A i \in ExternalEntries(gltf) : gltf.images[i].uri # UriUnset

C4_Witness ==
    /\ Cardinality(ExternalEntries(gltf)) >= 2
    /\ AllPromisesResolved(gltf)

\* C5: the primitives of a packed mesh are its maximal runs of equal material
\* index, one primitive per run, in run order: each primitive has its run's
\* material and 3 elements per face of its run.
C5_OnePrimitivePerRun ==
    \A k \in Packed :
        LET runs == Runs(meshInputs[k].faces) IN
        /\ Len(Primitives(k)) = Len(runs)
        /\ \A j \in 1..Len(runs) :
              /\ Primitives(k)[j].material =
                     IF runs[j].material >= 0 THEN runs[j].material ELSE Absent
              /\ gltf.accessors[Primitives(k)[j].POSITION + 1].count =
                     3 * runs[j].len

C5_Witness ==
    \E k \in Packed :
        /\ meshInputs[k].faces = <<0, 1, 0>>
        /\ Len(Primitives(k)) = 3

NoMaterialPrimitive(k) ==
    /\ Len(Primitives(k)) = 1
    /\ Primitives(k)[1].material = Absent
    /\ Primitives(k)[1].COLOR_0 = Absent

\* C6 as stated: a mesh all of whose faces carry a negative material index
\* gives exactly one primitive, without material and without COLOR_0.
C6_AsStated ==
    \A k \in Packed :
        (\A i \in 1..Len(meshInputs[k].faces) : meshInputs[k].faces[i] < 0)
            => NoMaterialPrimitive(k)

SameNegativeIndex(faces) ==
    /\ faces # <<>>
    /\ faces[1] < 0
    /\ \A i \in 1..Len(faces) : faces[i] = faces[1]

\* C6, amended: a mesh with at least one face, all of whose faces carry the
\* same negative material index, gives exactly one primitive, without
\* material and without COLOR_0.
C6_OnePrimitiveWithoutMaterial ==
    \A k \in Packed :
        SameNegativeIndex(meshInputs[k].faces) => NoMaterialPrimitive(k)

C6_Witness ==
    \E k \in Packed :
        /\ Len(meshInputs[k].faces) >= 2
        /\ Len(meshInputs[k].material) >= 1
        /\ SameNegativeIndex(meshInputs[k].faces)
        /\ NoMaterialPrimitive(k)

\* The dedup key of two images is equal: the same handle, or equal URIs.
SameKey(image1, image2) ==
    \/ image1.id = image2.id
    \/ image1.hasUri /\ image2.hasUri /\ image1.uri = image2.uri

\* C7: of two addImage calls with equal dedup keys the second returns the
\* index the first returned, and appends no image entry, allocates no buffer
\* view and dispatches nothing.
C7_EqualKeysSameIndex ==
    \A j \in 1..Len(imageCalls) :
        \A i \in 1..(j - 1) :
            SameKey(imageCalls[i].image, imageCalls[j].image) =>
                /\ imageCalls[j].ret = imageCalls[i].ret
                /\ imageCalls[j].after = imageCalls[j].before

C7_Witness ==
    \E j \in 1..Len(imageCalls) :
        \E i \in 1..(j - 1) :
            /\ imageCalls[i].image.id # imageCalls[j].image.id
            /\ SameKey(imageCalls[i].image, imageCalls[j].image)
            /\ imageCalls[j].ret = imageCalls[i].ret
            /\ \E k \in 1..Len(gltf.async) : gltf.async[k].state = "done"

\* The indices a build assigned: the index-valued content of every array,
\* without what a completion fills in (an image's uri, a view's written and
\* finalized flags, a promise's state).
IndexView(g) ==
    [nodes |-> g.nodes, scenes |-> g.scenes, meshes |-> g.meshes,
     materials |-> g.materials, textures |-> g.textures,
     samplers |-> g.samplers, accessors |-> g.accessors,
     images |-> [i \in 1..Len(g.images) |->
                    [extras |-> g.images[i].extras,
                     bufferView |-> g.images[i].bufferView]],
     bufferViews |-> [i \in 1..Len(g.bufferViews) |->
                         [buffer |-> g.bufferViews[i].buffer,
                          type |-> g.bufferViews[i].type]],
     buffers |-> Len(g.buffers)]

\* C8: whatever completions have resolved, in whatever order, the indices are
\* those of the build of the same asset and options in which none has.
C8_IndicesIndependentOfCompletions ==
    pc # "start" =>
        IndexView(gltf) =
            IndexView(AddScenes(EmptyGltf(gltf.extras.options), asset))

C8_Witness ==
    /\ Len(gltf.images) >= 2
    /\ \E k \in 1..Len(gltf.async) :
          /\ k > 1
          /\ gltf.async[k].state = "done"
          /\ gltf.async[1].state = "pending"

\* What call `owner` of addMesh registered in the document.
RegisteredBy(g, owner) ==
    [name \in {"materials", "textures", "images", "samplers", "meshes",
               "buffers", "bufferViews", "accessors"} |->
        Cardinality({i \in 1..Len(g[name]) : g[name][i].owner = owner})]

\* C9: when the walk reaches a mesh whose mode is not TRIANGLES, addScenes
\* throws (the walk does not complete), and the throwing addMesh call has
\* registered nothing.
C9_UnsupportedModeAborts ==
    /\ pc = "walked" =>
          \A i \in 1..Len(gltf.nodes) :
              asset.nodes[gltf.nodes[i].source].hasMesh =>
                  asset.nodes[gltf.nodes[i].source].mesh.mode = "TRIANGLES"
    /\ pc = "thrown" =>
          /\ gltf.err
          /\ \A name \in DOMAIN RegisteredBy(gltf, gltf.calls) :
                RegisteredBy(gltf, gltf.calls)[name] = 0

C9_Witness ==
    /\ pc = "thrown"
    /\ Len(gltf.meshes) >= 1
    /\ Len(gltf.materials) >= 1

\* C10: a call of the image setter with an empty value throws and leaves
\* every texture as it was, and every constructed Texture holds an image.
C10_EmptyImageRejected ==
    /\ [](\A t \in 1..Len(textures) : textures[t].kind = "object")
    /\ [][\A c \in Range(lastSet') :
             Falsy(c.val) => c.threw /\ textures' = textures]_vars

C10_Witness ==
    /\ Len(textures) >= 1
    /\ \E c \in Range(lastSet) : c.on >= 1 /\ Falsy(c.val) /\ c.threw

\* Two textures have structurally equal samplers: the same wrapS and wrapT.
SameSampler(texture1, texture2) ==
    texture1.wrapS = texture2.wrapS /\ texture1.wrapT = texture2.wrapT

\* C11: every addSampler call returns the index of the first entry of
\* gltf.samplers with the texture's wrapS and wrapT, which is the index the
\* first call with an equal sampler returned and appended at; a later call
\* with an equal sampler appends nothing; no two entries of gltf.samplers are
\* structurally equal.
C11_EqualSamplersSameIndex ==
    /\ \A j \in 1..Len(samplerCalls) :
          LET c == samplerCalls[j]
              first == CHOOSE i \in 1..j :
                          /\ SameSampler(samplerCalls[i].texture, c.texture)
                          /\ \A h \in 1..(i - 1) :
                                ~SameSampler(samplerCalls[h].texture, c.texture)
          IN  /\ c.ret = samplerCalls[first].ret
              /\ samplerCalls[first].ret = samplerCalls[first].before
              /\ SameSampler(gltf.samplers[c.ret + 1], c.texture)
              /\ \A i \in 1..c.ret : ~SameSampler(gltf.samplers[i], c.texture)
              /\ first < j => c.after = c.before
    /\ \A i, j \in 1..Len(gltf.samplers) :
          SameSampler(gltf.samplers[i], gltf.samplers[j]) => i = j

C11_Witness ==
    /\ Len(gltf.samplers) = 2
    /\ \E i, j \in 1..Len(samplerCalls) :
          /\ i + 1 < j
          /\ samplerCalls[i].texture.magFilter # samplerCalls[j].texture.magFilter
          /\ SameSampler(samplerCalls[i].texture, samplerCalls[j].texture)
          /\ samplerCalls[j].ret = samplerCalls[i].ret
          /\ samplerCalls[j].ret = 0
          /\ samplerCalls[i + 1].ret = 1

\* The document nodes and, of each, the node of the asset it was made from.
Source(i) == asset.nodes[gltf.nodes[i].source]

\* C12: a document node has a translation exactly when some component of the
\* node's translation is not 0, a rotation exactly when its rotation is not
\* (0,0,0,1) and a scale exactly when some component of its scale is not 1,
\* each whatever the other two are; a field that is there holds all the
\* components of the node's, in order.
C12_TransformFieldsIndependent ==
    \A i \in 1..Len(gltf.nodes) :
        LET t == Source(i).translation
            r == Source(i).rotation
            sc == Source(i).scale
        IN  /\ gltf.nodes[i].translation =
                   IF <<t.x, t.y, t.z>> = <<0, 0, 0>> THEN <<>>
                   ELSE <<t.x, t.y, t.z>>
            /\ gltf.nodes[i].rotation =
                   IF <<r.x, r.y, r.z, r.w>> = <<0, 0, 0, 1>> THEN <<>>
                   ELSE <<r.x, r.y, r.z, r.w>>
            /\ gltf.nodes[i].scale =
                   IF <<sc.x, sc.y, sc.z>> = <<1, 1, 1>> THEN <<>>
                   ELSE <<sc.x, sc.y, sc.z>>

C12_Witness ==
    /\ pc = "walked"
    /\ \E i \in 1..Len(gltf.nodes) :
          /\ gltf.nodes[i].translation = <<>>
          /\ gltf.nodes[i].rotation = <<0, 0, 0, 0>>
          /\ gltf.nodes[i].scale = <<>>

\* C13: no document node has both a mesh and children: the node of a node
\* with a mesh has no children, whatever children the node has, and once the
\* walk is over it has the mesh; the node of a node without a mesh has no
\* mesh, and once the walk is over it has one child per child of the node.
C13_MeshOrChildren ==
    \A i \in 1..Len(gltf.nodes) :
        /\ ~(gltf.nodes[i].mesh # Absent /\ gltf.nodes[i].children # <<>>)
        /\ Source(i).hasMesh =>
              /\ gltf.nodes[i].children = <<>>
              /\ pc = "walked" => gltf.nodes[i].mesh # Absent
        /\ ~Source(i).hasMesh =>
              /\ gltf.nodes[i].mesh = Absent
              /\ pc = "walked" =>
                    Len(gltf.nodes[i].children) = Len(Source(i).children)

C13_Witness ==
    /\ pc = "walked"
    /\ \E i \in 1..Len(gltf.nodes) :
          /\ Source(i).hasMesh
          /\ Source(i).children # <<>>
          /\ gltf.nodes[i].mesh # Absent
          /\ gltf.nodes[i].children = <<>>

\* i is an index into array arr (0-based); an optional reference is Absent.
IsIndex(i, arr) == i \in 0..(Len(arr) - 1)

IsOptionalIndex(i, arr) == i = Absent \/ IsIndex(i, arr)

\* Every reference of the document is an index into its target array.
InBounds(g) ==
    /\ \A s \in 1..Len(g.scenes) :
          \A j \in 1..Len(g.scenes[s].nodes) : IsIndex(g.scenes[s].nodes[j], g.nodes)
    /\ \A i \in 1..Len(g.nodes) :
          /\ \A j \in 1..Len(g.nodes[i].children) :
                IsIndex(g.nodes[i].children[j], g.nodes)
          /\ IsOptionalIndex(g.nodes[i].mesh, g.meshes)
    /\ \A m \in 1..Len(g.meshes) :
          \A j \in 1..Len(g.meshes[m].primitives) :
              LET primitive == g.meshes[m].primitives[j] IN
              /\ IsIndex(primitive.POSITION, g.accessors)
              /\ IsIndex(primitive.NORMAL, g.accessors)
              /\ IsIndex(primitive.TEXCOORD_0, g.accessors)
              /\ IsOptionalIndex(primitive.COLOR_0, g.accessors)
              /\ IsOptionalIndex(primitive.material, g.materials)
    /\ \A i \in 1..Len(g.materials) :
          IsOptionalIndex(g.materials[i].baseColorTexture, g.textures)
    /\ \A i \in 1..Len(g.textures) :
          /\ IsIndex(g.textures[i].sampler, g.samplers)
          /\ IsIndex(g.textures[i].source, g.images)

\* Every reference denotes the entry registered for what it refers to: a
\* scene's and a node's node references the nodes made from its roots and
\* children, in order; a node's mesh reference a mesh whose accessors the
\* same addMesh call registered; the base color texture of the material at
\* index l of the mesh a texture whose image entry is the one of the
\* texture's image and whose sampler has the texture's wrapping modes.
Denotes(g) ==
    /\ \A s \in 1..Len(g.scenes) :
          /\ Len(g.scenes[s].nodes) = Len(asset.scenes[s])
          /\ \A j \in 1..Len(g.scenes[s].nodes) :
                g.nodes[g.scenes[s].nodes[j] + 1].source = asset.scenes[s][j]
    /\ \A i \in 1..Len(g.nodes) :
          /\ \A j \in 1..Len(g.nodes[i].children) :
                g.nodes[g.nodes[i].children[j] + 1].source =
                    asset.nodes[g.nodes[i].source].children[j]
          /\ g.nodes[i].mesh # Absent =>
                LET mesh == asset.nodes[g.nodes[i].source].mesh
                    gltfMesh == g.meshes[g.nodes[i].mesh + 1]
                IN  /\ \A j \in 1..Len(gltfMesh.primitives) :
                          \A name \in {"POSITION", "NORMAL", "TEXCOORD_0"} :
                              g.accessors[gltfMesh.primitives[j][name] + 1].owner
                                  = gltfMesh.owner
                    /\ \A l \in 1..Len(mesh.material) :
                          mesh.material[l].hasTexture =>
                              LET material ==
                                      g.materials[RegisteredMaterial(
                                          g, gltfMesh.owner, l - 1) + 1]
                                  texture ==
                                      g.textures[material.baseColorTexture + 1]
                              IN  /\ g.images[texture.source + 1].extras =
                                         mesh.material[l].texture.image.id
                                  /\ SameSampler(g.samplers[texture.sampler + 1],
                                                 mesh.material[l].texture)

\* What of an entry never changes: all of it, but for what a completion fills
\* in (IndexView).  No entry of the document is removed or moved in a step.
Stable(g, h) ==
    /\ \A name \in {"nodes", "scenes", "meshes", "materials", "textures",
                      "samplers", "accessors", "images", "bufferViews"} :
          /\ Len(IndexView(h)[name]) >= Len(IndexView(g)[name])
          /\ \A i \in 1..Len(IndexView(g)[name]) :
                IndexView(h)[name][i] = IndexView(g)[name][i]
    /\ IndexView(h).buffers >= IndexView(g).buffers

\* C14: when the walk is over every reference of the document is an index
\* within its target array and denotes the entry registered for what it
\* refers to, and no step of the build removes or moves an entry.
C14_ReferencesInBoundsAndStable ==
    /\ [](pc = "walked" => InBounds(gltf) /\ Denotes(gltf))
    /\ [][Stable(gltf, gltf')]_vars

C14_Witness ==
    /\ pc = "walked"
    /\ Len(gltf.scenes) = 2
    /\ Len(gltf.scenes[2].nodes) >= 1
    /\ \E i \in 1..Len(gltf.nodes) : gltf.nodes[i].children # <<>>
    /\ Len(gltf.textures) >= 1
    /\ \E k \in 1..Len(gltf.async) : gltf.async[k].state = "done"

\* The buffer views (1-based positions) that call k of addMesh created, in
\* the order of their creation: position, normal, uv and then the color view.
ViewsOf(g, k) == Ascending({v \in 1..Len(g.bufferViews) : g.bufferViews[v].owner = k})

ColorViewsOf(g, k) ==
    {v \in 1..Len(g.bufferViews) :
        /\ g.bufferViews[v].owner = k
        /\ g.bufferViews[v].componentType = "UNSIGNED_BYTE"
        /\ g.bufferViews[v].type = "VEC4"}

\* The runs (positions in Runs) of the mesh whose material has a color mode.
ColorRuns(mesh) ==
    {j \in 1..Len(Runs(mesh.faces)) : HasColors(mesh, Runs(mesh.faces)[j].material)}

FirstColorRun(mesh) ==
    CHOOSE j \in ColorRuns(mesh) : \A h \in ColorRuns(mesh) : j <= h

\* C15: a packed mesh has one color view if some run of it has a material
\* with a color mode, and else none; the view was created when the first such
\* run started, that is when gltf.accessors held the accessors of the runs
\* before it and no more; a primitive has COLOR_0, an accessor on that view,
\* exactly when the material of its run has a color mode.
C15_ColorViewAllocatedOnce ==
    \A k \in Packed :
        LET mesh == meshInputs[k]
            views == ColorViewsOf(gltf, gltf.meshes[k].owner)
        IN  /\ Cardinality(views) = IF ColorRuns(mesh) = {} THEN 0 ELSE 1
            /\ \A v \in views :
                  gltf.bufferViews[v].born =
                      Primitives(k)[FirstColorRun(mesh)].POSITION
            /\ \A j \in 1..Len(Primitives(k)) :
                  /\ Primitives(k)[j].COLOR_0 # Absent <=> j \in ColorRuns(mesh)
                  /\ Primitives(k)[j].COLOR_0 # Absent =>
                        gltf.accessors[Primitives(k)[j].COLOR_0 + 1].bufferView + 1
                            \in views

C15_Witness ==
    \E k \in Packed :
        /\ k > 1
        /\ Len(meshInputs[k].material) = 2
        /\ ColorRuns(meshInputs[k]) = {2}
        /\ Len(Primitives(k)) = 3
        /\ Primitives(k)[2].COLOR_0 # Absent
        /\ \E v \in ColorViewsOf(gltf, gltf.meshes[k].owner) :
              gltf.bufferViews[v].born = Primitives(k)[2].POSITION

\* The components `fields` of vertex 1, 2 and 3 of face 1, then of face 2, and
\* so on to face n.
InVertexOrder(n, fields) ==
    [p \in 1..(n * 3 * Len(fields)) |->
        <<(p - 1) \div (3 * Len(fields)) + 1,
          (((p - 1) \div Len(fields)) % 3) + 1,
          fields[((p - 1) % Len(fields)) + 1]>>]

\* The number of faces of the mesh in runs whose material has a color mode.
RECURSIVE ColoredFaces(_, _)
ColoredFaces(mesh, i) ==
    IF i > Len(mesh.faces) THEN 0
    ELSE ColoredFaces(mesh, i + 1)
             + (IF HasColors(mesh, mesh.faces[i]) THEN 1 ELSE 0)

\* The accessor of attribute `name` of a primitive is on view `view`
\* (1-based position) and counts `count` elements.
AccessorIs(g, primitive, name, view, count) ==
    /\ g.accessors[primitive[name] + 1].bufferView = view - 1
    /\ g.accessors[primitive[name] + 1].count = count

\* C16: the position, normal and uv views of a packed mesh hold, face after
\* face, the components of v1, then v2, then v3; its color view, if any,
\* holds 3 colors of 4 components for each face of a run with colors; every
\* attribute accessor of a primitive, COLOR_0 included, counts 3 elements
\* per face of the primitive's run.
C16_ThreeElementsPerFace ==
    \A k \in Packed :
        LET mesh == meshInputs[k]
            views == ViewsOf(gltf, gltf.meshes[k].owner)
            n == Len(mesh.faces)
        IN  /\ gltf.bufferViews[views[1]].data =
                   InVertexOrder(n, <<"x", "y", "z">>)
            /\ gltf.bufferViews[views[2]].data =
                   InVertexOrder(n, <<"normalX", "normalY", "normalZ">>)
            /\ gltf.bufferViews[views[3]].data = InVertexOrder(n, <<"u", "v">>)
            /\ Len(views) = IF ColorRuns(mesh) = {} THEN 3 ELSE 4
            /\ Len(views) = 4 =>
                  Len(gltf.bufferViews[views[4]].data) = 4 * 3 * ColoredFaces(mesh, 1)
            /\ \A j \in 1..Len(Primitives(k)) :
                  LET count == 3 * Runs(mesh.faces)[j].len IN
                  /\ AccessorIs(gltf, Primitives(k)[j], "POSITION", views[1], count)
                  /\ AccessorIs(gltf, Primitives(k)[j], "NORMAL", views[2], count)
                  /\ AccessorIs(gltf, Primitives(k)[j], "TEXCOORD_0", views[3], count)
                  /\ Primitives(k)[j].COLOR_0 # Absent =>
                        AccessorIs(gltf, Primitives(k)[j], "COLOR_0", views[4], count)

C16_Witness ==
    \E k \in Packed :
        /\ meshInputs[k].faces = <<1, 1, 0>>
        /\ Len(Primitives(k)) = 2
        /\ Primitives(k)[1].COLOR_0 # Absent
        /\ gltf.accessors[Primitives(k)[1].COLOR_0 + 1].count = 6
        /\ gltf.accessors[Primitives(k)[1].TEXCOORD_0 + 1].count = 6
        /\ gltf.accessors[Primitives(k)[2].NORMAL + 1].count = 3

\* The byte of a color component c in [0, 1] (in thousandths): the integer n
\* with n <= 255 * c < n + 1.
Quantized(c) ==
    CHOOSE n \in 0..255 :
        n * ColorUnit <= 255 * c /\ 255 * c < (n + 1) * ColorUnit

\* The four bytes of a color: of no color, (0, 0, 0) and alpha 255.
Bytes(color) ==
    IF color = <<>> THEN <<0, 0, 0, 255>>
    ELSE <<Quantized(color[1]), Quantized(color[2]), Quantized(color[3]),
           IF Len(color) = 4 THEN Quantized(color[4]) ELSE 255>>

\* The three colors packed for the face of a mesh of ColoredMeshes.
FaceColorsOf(mesh) ==
    IF mesh.material[1].vertexColorMode = "FaceColors"
    THEN <<mesh.colors[1].color, mesh.colors[1].color, mesh.colors[1].color>>
    ELSE mesh.colors[1].v

\* C17: the color view of a packed mesh holds 4 bytes for each of the three
\* colors of the face, in order: r, g and b (and a, if there) times 255,
\* truncated; (0, 0, 0) for a missing color; 255 for a missing alpha.
C17_ColorBytes ==
    \A k \in Packed :
        \A v \in ColorViewsOf(gltf, gltf.meshes[k].owner) :
            gltf.bufferViews[v].data =
                Bytes(FaceColorsOf(meshInputs[k])[1])
                    \o Bytes(FaceColorsOf(meshInputs[k])[2])
                    \o Bytes(FaceColorsOf(meshInputs[k])[3])

C17_Witness ==
    \E k \in Packed :
        /\ meshInputs[k].material[1].vertexColorMode = "VertexColors"
        /\ \E v \in ColorViewsOf(gltf, gltf.meshes[k].owner) :
              gltf.bufferViews[v].data =
                  <<127, 255, 0, 255, 0, 0, 0, 255, 255, 0, 127, 127>>

\* The state of a view after the calls trace[i..] made on it in state
\* `state`: "closed" (no segment in progress), "open" (one in progress),
\* "finalized", or "bad" once a call was out of place: startAccessor with a
\* segment in progress, endAccessor or push without one, finalize with one,
\* or any call after finalize.
RECURSIVE AfterCalls(_, _, _)
AfterCalls(trace, i, state) ==
    IF i > Len(trace) THEN state
    ELSE AfterCalls(trace, i + 1,
             CASE state = "closed" /\ trace[i] = "start" -> "open"
               [] state = "closed" /\ trace[i] = "finalize" -> "finalized"
               [] state = "open" /\ trace[i] = "push" -> "open"
               [] state = "open" /\ trace[i] = "end" -> "closed"
               [] OTHER -> "bad")

\* The number of calls `call` in a trace.
Calls(trace, call) == Cardinality({i \in 1..Len(trace) : trace[i] = call})

\* C18: on every view of a packed mesh the calls were in place: startAccessor
\* and endAccessor alternate, starting with startAccessor, every push is
\* between a startAccessor and its endAccessor, and finalize is the last
\* call, made with no segment in progress.
C18_SegmentsAlternate ==
    \A k \in Packed :
        \A v \in 1..Len(gltf.bufferViews) :
            gltf.bufferViews[v].owner = gltf.meshes[k].owner =>
                AfterCalls(gltf.bufferViews[v].trace, 1, "closed") = "finalized"

C18_Witness ==
    \E k \in Packed :
        /\ meshInputs[k].faces = <<1, 0, 1>>
        /\ \E v \in ColorViewsOf(gltf, gltf.meshes[k].owner) :
              /\ Calls(gltf.bufferViews[v].trace, "start") = 2
              /\ Calls(gltf.bufferViews[v].trace, "push") = 24
              /\ AfterCalls(gltf.bufferViews[v].trace, 1, "closed") = "finalized"
        /\ Calls(gltf.bufferViews[ViewsOf(gltf, gltf.meshes[k].owner)[1]].trace,
                 "end") = 3

\* The nodes of the asset in the order of a pre-order walk from the nodes
\* ids: a node, then the walk from its children (none below a node with a
\* mesh), then the nodes after it.
RECURSIVE PreOrder(_, _)
PreOrder(a, ids) ==
    IF ids = <<>> THEN <<>>
    ELSE <<Head(ids)>>
             \o (IF a.nodes[Head(ids)].hasMesh THEN <<>>
                 ELSE PreOrder(a, a.nodes[Head(ids)].children))
             \o PreOrder(a, Tail(ids))

\* The pre-order walk of the scenes from scene s on.
RECURSIVE PreOrderScenes(_, _)
PreOrderScenes(a, s) ==
    IF s > Len(a.scenes) THEN <<>>
    ELSE PreOrder(a, a.scenes[s]) \o PreOrderScenes(a, s + 1)

\* The indices (0-based) of the document nodes below node i (0-based),
\* following children at most `depth` times.
RECURSIVE Descendants(_, _, _)
Descendants(g, i, depth) ==
    IF depth = 0 THEN {}
    ELSE UNION {{g.nodes[i + 1].children[j]}
                    \cup Descendants(g, g.nodes[i + 1].children[j], depth - 1) :
                j \in 1..Len(g.nodes[i + 1].children)}

\* The references to node i (0-based): by a parent and by a scene.
ParentRefs(g, i) ==
    {<<p, j>> \in (1..Len(g.nodes)) \X (1..Len(g.nodes)) :
        j <= Len(g.nodes[p].children) /\ g.nodes[p].children[j] = i}

SceneRefs(g, i) ==
    {<<s, j>> \in (1..Len(g.scenes)) \X (1..Len(g.nodes)) :
        j <= Len(g.scenes[s].nodes) /\ g.scenes[s].nodes[j] = i}

\* C19: the document nodes are the nodes of the asset in the order of the
\* pre-order walk (all of them once the walk is over, those up to the node
\* whose mesh made it throw otherwise); the index of a node is smaller than
\* the index of every node below it; the j-th child index of a node is the
\* node made from the j-th child of its node; no node is referenced twice,
\* and once the walk is over every node is referenced once.
C19_NodesInPreOrder ==
    LET order == PreOrderScenes(asset, 1)
        n == Len(gltf.nodes)
    IN  /\ n <= Len(order)
        /\ \A i \in 1..n : gltf.nodes[i].source = order[i]
        /\ pc = "walked" => n = Len(order)
        /\ \A i \in 0..(n - 1) :
              /\ \A d \in Descendants(gltf, i, n) : i < d /\ d < n
              /\ \A j \in 1..Len(gltf.nodes[i + 1].children) :
                    gltf.nodes[gltf.nodes[i + 1].children[j] + 1].source =
                        Source(i + 1).children[j]
              /\ Cardinality(ParentRefs(gltf, i)) + Cardinality(SceneRefs(gltf, i))
                    <= 1
              /\ pc = "walked" =>
                    Cardinality(ParentRefs(gltf, i)) + Cardinality(SceneRefs(gltf, i))
                        = 1

C19_Witness ==
    /\ pc = "walked"
    /\ Len(gltf.nodes) = 3
    /\ gltf.nodes[1].children = <<1>>
    /\ gltf.nodes[2].children = <<2>>
    /\ gltf.nodes[3].mesh # Absent
    /\ Descendants(gltf, 0, 3) = {1, 2}

\* One of the two output types is GLB.
SomeGLB(opts) == opts.bufferOutputType = "GLB" \/ opts.imageOutputType = "GLB"

\* C20: no call on gltf.extras.binChunkBuffer finds it undefined; from the
\* start of the walk on the document has a container buffer exactly when one
\* of the two output types is GLB; with buffer output GLB the views of the
\* meshes, and with image output GLB the views of the images, are in it; it
\* is finalized when addScenes returns.
C20_BinChunkBufferThere ==
    LET bin == gltf.extras.binChunkBuffer
        opts == gltf.extras.options
    IN  /\ ~gltf.typeError
        /\ pc = "start" => bin = Absent
        /\ pc # "start" => (bin # Absent <=> SomeGLB(opts))
        /\ bin # Absent => IsIndex(bin, gltf.buffers)
        /\ \A v \in 1..Len(gltf.bufferViews) :
              /\ IsIndex(gltf.bufferViews[v].buffer, gltf.buffers)
              /\ gltf.bufferViews[v].componentType = "FLOAT"
                     /\ opts.bufferOutputType = "GLB"
                    => gltf.bufferViews[v].buffer = bin
        /\ \A i \in 1..Len(gltf.images) :
              gltf.images[i].bufferView # Absent =>
                  /\ opts.imageOutputType = "GLB"
                  /\ gltf.bufferViews[gltf.images[i].bufferView + 1].buffer = bin
        /\ pc = "walked" /\ SomeGLB(opts) => gltf.buffers[bin + 1].finalized

C20_Witness ==
    /\ pc = "walked"
    /\ gltf.extras.options.bufferOutputType = "DataURI"
    /\ gltf.extras.options.imageOutputType = "GLB"
    /\ Len(gltf.buffers) = 3
    /\ gltf.buffers[gltf.extras.binChunkBuffer + 1].finalized
    /\ \E i \in 1..Len(gltf.images) :
          gltf.bufferViews[gltf.images[i].bufferView + 1].buffer =
              gltf.extras.binChunkBuffer

====
